---- MODULE Spec2Model ----
(***************************************************************************)
(* A model of wiznote_export (webapi-export): the WizNote API client       *)
(* (REST request with retry, rate limiting, pagination, the editor         *)
(* WebSocket session), the export loop with its REST fallback, and the     *)
(* JSON -> Markdown converter.                                             *)
(*                                                                         *)
(* Each component has its own specification (SpecWS, SpecRequest, ...):    *)
(* the variables of the other components stay at their idle values.        *)
(***************************************************************************)
EXTENDS Integers, Sequences, FiniteSets, TLC

VARIABLES
    \* ---- get_note_detail_via_websocket (api_client.py 306-499)
    ws_config,       \* config['websocket']
    wsPc,            \* position in the function
    token,           \* the editor token used in the handshake
    tokenCalls,      \* number of get_editor_token_info calls
    token_posts,     \* number of POST .../tokens requests issued for them
    opened,          \* websocket.create_connection returned a connection
    closed,          \* ws.close() was called
    sent,            \* the messages passed to ws.send, in order
    recvd,           \* the frames ws.recv returned, in order
    message_count,
    session_id,
    handshake_sent,
    note_payload,
    wsResult         \* what the function returned ("pending" before)

wsVars == <<ws_config, wsPc, token, tokenCalls, token_posts, opened, closed, sent, recvd,
            message_count, session_id, handshake_sent, note_payload, wsResult>>

VARIABLES
    \* ---- WizNoteAPIClient.request under @retry (api_client.py 66-109)
    rqPc,            \* "call": attempts still run; "returned"; "raised"
    attempt_number,  \* tenacity's attempt counter
    http_log,        \* the outcome of every requests.request call, in order
    refresh_count,   \* number of auth.refresh_token() calls
    rqResult,        \* status of the returned response (0 before, or none)
    rq_kwargs,       \* **kwargs of the call: its keys and the caller's headers
    request_log      \* what every requests.request call was given, in order

rqVars == <<rqPc, attempt_number, http_log, refresh_count, rqResult,
            rq_kwargs, request_log>>

VARIABLES
    \* ---- rate_limit / _apply_rate_limit (api_client.py 23-64)
    now,             \* time.time(), in ticks
    last_called,     \* the last_called[0] of each wrapped method's own closure
    calls            \* the outbound calls made so far: operation and start time

rlVars == <<now, last_called, calls>>

VARIABLES
    \* ---- get_all_notes_in_folder (api_client.py 183-202)
    folder_size,     \* how many notes the server holds for the folder
    pgPc,            \* "request", "yield", "advance", "done"
    start,
    notes,           \* result['notes'] of the current page
    note_idx,        \* position of the for loop in notes
    pages,           \* the page requests made: start and what came back
    yielded          \* the notes yielded so far

pgVars == <<folder_size, pgPc, start, notes, note_idx, pages, yielded>>

VARIABLES
    \* ---- JsonToMarkdownConverter._apply_text_styles (json_to_markdown.py 203-229)
    st_text,         \* the run's text ('insert')
    st_attributes,   \* the run's attributes that are set
    st_result        \* the styled text, <<"pending">> before the call

stVars == <<st_text, st_attributes, st_result>>

VARIABLES
    \* ---- export_notes_to_markdown (main.py 279-468)
    websocket_available,
    exPc,            \* position in the function
    folders_left,    \* folders the outer loop has still to start
    folder_path,     \* the folder being processed (its number)
    total_notes,
    success_notes,
    failed_notes,
    websocket_success,
    rest_fallback_success,
    conversion_failures,
    markdown,
    used_api,
    cur,             \* the note of the current iteration and what happened to it
    files            \* the Markdown files on disk: path, document, provenance

exVars == <<websocket_available, exPc, folders_left, folder_path, total_notes,
            success_notes, failed_notes, websocket_success,
            rest_fallback_success, conversion_failures, markdown, used_api,
            cur, files>>

VARIABLES
    \* ---- JsonToMarkdownConverter._convert_block on one block
    \*      (json_to_markdown.py 151-300)
    bk_block,        \* the block
    bk_root,         \* root_data: the cell ids it holds and what they map to
    bk_result        \* the block's Markdown, <<"pending">> before the call

bkVars == <<bk_block, bk_root, bk_result>>

VARIABLES
    \* ---- JsonToMarkdownConverter.convert (json_to_markdown.py 19-21, 127-149)
    cv_self,         \* the converter instance: indent_level, in_table
    cv_pc,           \* "ready", "loop", "returned", "raised"
    cv_arg,          \* the document as the caller holds it before the call
    cv_data,         \* data, the document convert works on
    cv_i,            \* the blocks the for loop has handled
    block_md,        \* what _convert_block returned for each block handled
    markdown_lines,
    cv_result,       \* what convert returned
    cv_first         \* the first conversion of the run: document and result

cvVars == <<cv_self, cv_pc, cv_arg, cv_data, cv_i, block_md,
            markdown_lines, cv_result, cv_first>>

VARIABLES
    \* ---- the socket attempts of one export run (main.py 350-390)
    ss_doc,          \* the note whose socket attempt runs, 0 outside such a run
    ss_unclosed      \* connections of earlier attempts that are still open

ssVars == <<ss_doc, ss_unclosed>>

VARIABLES
    \* ---- the folders export_notes_to_markdown goes through
    \*      (main.py 304-327, 343-348)
    fdPc,               \* "off", "start", "loop", "returned"
    folders,            \* the paths get_all_folders returns
    folders_filter,     \* the folders_filter argument
    normalized_folders, \* the folders the loop goes through
    exported_folders    \* the paths the folder loop has processed, in order

fdVars == <<fdPc, folders, folders_filter, normalized_folders, exported_folders>>

vars == <<wsVars, rqVars, rlVars, pgVars, stVars, exVars, bkVars, cvVars, ssVars,
          fdVars>>

notWs == <<rqVars, rlVars, pgVars, stVars, exVars, bkVars, cvVars, ssVars,
          fdVars>>
notRq == <<wsVars, rlVars, pgVars, stVars, exVars, bkVars, cvVars, ssVars,
          fdVars>>
notRl == <<wsVars, rqVars, pgVars, stVars, exVars, bkVars, cvVars, ssVars,
          fdVars>>
notPg == <<wsVars, rqVars, rlVars, stVars, exVars, bkVars, cvVars, ssVars,
          fdVars>>
notSt == <<wsVars, rqVars, rlVars, pgVars, exVars, bkVars, cvVars, ssVars,
          fdVars>>
notEx == <<wsVars, rqVars, rlVars, pgVars, stVars, bkVars, cvVars, ssVars,
          fdVars>>
notBk == <<wsVars, rqVars, rlVars, pgVars, stVars, exVars, cvVars, ssVars,
          fdVars>>
notCv == <<wsVars, rqVars, rlVars, pgVars, stVars, exVars, bkVars, ssVars,
          fdVars>>

(***************************************************************************)
(* Bounds of the model.                                                    *)
(***************************************************************************)
\* frames one socket session receives at most
MaxRecv == 3

(***************************************************************************)
(* WizNoteAPIClient.request and its tenacity retry decorator               *)
(***************************************************************************)
\* stop_after_attempt(3)
MaxAttempts == 3

\* what one requests.request call can give: a status code, or -1 for an
\* exception of the transport (connection error, timeout)
HttpOutcomes == {-1, 200, 401, 404, 500, 503}

IsNetworkError(r) == r < 0

Is5xx(r) == r >= 500 /\ r < 600

\* line 95: `response.status_code == 401`
NeedsRefresh(r) == r = 401

\* line 108: response.raise_for_status() raises HTTPError for 4xx and 5xx
RaisesForStatus(r) == r >= 400 /\ r < 600

\* a slip: one attempt too many
StopAfterAttempt_OffByOne(n) == n > MaxAttempts

\* tenacity's stop condition after a failed attempt
StopAfterAttempt(n) == n >= MaxAttempts

\* tenacity's retry condition: the default retries on every exception
RetryOnException(r) == TRUE

\* a header: its name and its value
Header(name, value) == [name |-> name, value |-> value]

\* self.auth.get_headers(): the auth headers, built on each call from the
\* token in force; the token is named by the refreshes made before
get_headers(refreshes) == {Header("X-Wiz-Token", refreshes)}

\* the headers a caller can pass as kwargs['headers']: none, or one header
CallerHeaders == {{}, {Header("Accept", 0)}}

\* **kwargs as the caller gives it: params, and headers when there are some
Kwargs(caller_headers) ==
    [keys |-> IF caller_headers = {} THEN {"params"} ELSE {"params", "headers"},
     headers |-> caller_headers]

\* lines 80-82: kwargs.pop('headers'); what is left goes to requests.request
PassedKwargs(kw) == kw.keys \ {"headers"}

\* lines 78-82: get_headers() updated with the caller's headers
FirstHeaders(kw, refreshes) == get_headers(refreshes) \cup kw.headers

\* line 99: get_headers() after the refresh
ReissueHeaders(kw, refreshes) == get_headers(refreshes)

\* lines 86-92 and 100-106: one requests.request call
HttpCall(headers, passed, reissue) ==
    [headers |-> headers, kwargs |-> passed, reissue |-> reissue]

RqIdle ==
    /\ rqPc = "off"
    /\ attempt_number = 0
    /\ http_log = <<>>
    /\ refresh_count = 0
    /\ rqResult = 0
    /\ rq_kwargs = Kwargs({})
    /\ request_log = <<>>

RqInit ==
    /\ rqPc = "call"
    /\ attempt_number = 1
    /\ http_log = <<>>
    /\ refresh_count = 0
    /\ rqResult = 0
    /\ \E caller_headers \in CallerHeaders : rq_kwargs = Kwargs(caller_headers)
    /\ request_log = <<>>

\* one attempt: the body of request (lines 72-109), then tenacity's decision.
\* r1 answers the first requests.request, r2 the one re-issued after a 401.
RqAttempt ==
    /\ rqPc = "call"
    /\ \E r1 \in HttpOutcomes, r2 \in HttpOutcomes :
        LET reissued == ~IsNetworkError(r1) /\ NeedsRefresh(r1)
            final == IF reissued THEN r2 ELSE r1
            failed == IsNetworkError(final) \/ RaisesForStatus(final)
        IN  /\ reissued \/ r2 = 200
            /\ http_log' = IF reissued THEN http_log \o <<r1, r2>>
                                        ELSE Append(http_log, r1)
            /\ refresh_count' = IF reissued THEN refresh_count + 1
                                             ELSE refresh_count
            /\ request_log' =
                  request_log
                  \o <<HttpCall(FirstHeaders(rq_kwargs, refresh_count),
                                PassedKwargs(rq_kwargs), FALSE)>>
                  \o (IF reissued
                      THEN <<HttpCall(ReissueHeaders(rq_kwargs, refresh_count + 1),
                                      PassedKwargs(rq_kwargs), TRUE)>>
                      ELSE <<>>)
            /\ UNCHANGED rq_kwargs
            /\ IF ~failed
               THEN /\ rqPc' = "returned"
                    /\ rqResult' = final
                    /\ UNCHANGED attempt_number
               ELSE IF ~RetryOnException(final) \/ StopAfterAttempt(attempt_number)
               THEN /\ rqPc' = "raised"
                    /\ UNCHANGED <<attempt_number, rqResult>>
               ELSE /\ attempt_number' = attempt_number + 1
                    /\ UNCHANGED <<rqPc, rqResult>>
    /\ UNCHANGED notRq

(***************************************************************************)
(* The WebSocket session                                                   *)
(***************************************************************************)
kb_guid == "KB"
doc_guid == "DOC"

\* websocket.editor_token as configured: absent/empty, blank, or a token
EditorTokens == {"", " ", "STATIC"}

\* a slip: the configured token never used
StripToken_DropsAll(t) == ""

\* str.strip() on the configured editor token
StripToken(t) == IF t = " " THEN "" ELSE t

\* websocket.init_payload / init_payload_encoding: "" is no payload; "valid"
\* decodes under the encoding, "invalid" does not
InitPayloads ==
    {[init_payload |-> "", init_payload_encoding |-> "text"]} \cup
    [init_payload : {"valid", "invalid"},
     init_payload_encoding : {"text", "hex", "base64"}]

WsConfigs ==
    {[enabled |-> e, editor_token |-> t, init_payload |-> p.init_payload,
      init_payload_encoding |-> p.init_payload_encoding] :
        e \in BOOLEAN, t \in EditorTokens, p \in InitPayloads}

\* an outbound message
Msg(op, a, tok, c, d) == [op |-> op, a |-> a, token |-> tok, c |-> c, d |-> d]

handshake_msg(tok) == Msg("text", "hs", tok, kb_guid, doc_guid)

f_request == Msg("text", "f", "", kb_guid, doc_guid)

\* the bytes of the init payload, or "None" when they do not decode (the text
\* encoding never decodes to bytes)
payload_bytes(cfg) ==
    IF cfg.init_payload_encoding \in {"hex", "base64"} /\ cfg.init_payload = "valid"
    THEN "bytes" ELSE "None"

\* what is sent for the init payload
init_payload_msg(cfg) ==
    IF payload_bytes(cfg) # "None"
    THEN Msg("binary", "init_payload", "", "", "")
    ELSE Msg("text", "init_payload", "", "", "")

\* an inbound frame: enc is the frame's type, form what its content is, a the
\* message type of a JSON object, data its 'data' field ("absent": no field)
Frame(enc, form, a, data) == [enc |-> enc, form |-> form, a |-> a, data |-> data]

DataVals == {"X1", "X2", "None"}

WireFrames ==
    {Frame("text", "empty", "", "absent"),
     Frame("bin", "empty", "", "absent"),
     Frame("bin", "badutf8", "", "absent"),
     Frame("text", "nonjson", "", "absent"),
     Frame("text", "nondict", "", "absent"),
     Frame("text", "object", "init", "absent"),
     Frame("text", "object", "hs", "absent"),
     Frame("text", "object", "other", "absent"),
     Frame("text", "object", "f", "absent"),
     Frame("bin", "object", "f", "X1")} \cup
    {Frame("text", "object", "f", d) : d \in DataVals}

\* `if not message`
IsEmptyMessage(m) == m.form = "empty"

\* message.decode('utf-8') succeeds (text frames are str already)
DecodesUtf8(m) == ~(m.enc = "bin" /\ m.form = "badutf8")

\* a slip: every frame taken for JSON
ParsesJson_Lenient(m) == TRUE

\* json.loads(message) succeeds
ParsesJson(m) == m.form \in {"nondict", "object"}

\* payload.get exists: the parsed JSON is an object
IsDict(m) == m.form = "object"

\* a slip: the flag tested the wrong way round
IsInitResend_Inverted(m, hs_sent) == m.a = "init" /\ hs_sent

\* a slip: the handshake sent again on every init
IsInitResend_EveryInit(m, hs_sent) == m.a = "init"

\* a slip: the handshake never sent again
IsInitResend_Never(m, hs_sent) == FALSE

\* `msg_type == 'init' and not handshake_sent`
IsInitResend(m, hs_sent) == m.a = "init" /\ ~hs_sent

\* `msg_type == 'hs'`
IsHandshakeAck(m) == m.a = "hs"

\* `msg_type == 'f' and 'data' in payload`
IsDocument(m) == m.a = "f" /\ m.data # "absent"

WsIdle ==
    /\ ws_config = [enabled |-> FALSE, editor_token |-> "",
                    init_payload |-> "", init_payload_encoding |-> "text"]
    /\ wsPc = "off"
    /\ token = "None"
    /\ tokenCalls = 0
    /\ token_posts = 0
    /\ opened = FALSE
    /\ closed = FALSE
    /\ sent = <<>>
    /\ recvd = <<>>
    /\ message_count = 0
    /\ session_id = "None"
    /\ handshake_sent = FALSE
    /\ note_payload = "None"
    /\ wsResult = "pending"

WsInit ==
    /\ ws_config \in WsConfigs
    /\ wsPc = "call"
    /\ token = "None"
    /\ tokenCalls = 0
    /\ token_posts = 0
    /\ opened = FALSE
    /\ closed = FALSE
    /\ sent = <<>>
    /\ recvd = <<>>
    /\ message_count = 0
    /\ session_id = "None"
    /\ handshake_sent = FALSE
    /\ note_payload = "None"
    /\ wsResult = "pending"

\* what one POST .../tokens request can give: a transport error, a 200, a
\* 5xx (a 401 is answered by the refresh and the re-issue of RqAttempt)
TokenHttpOutcomes == {-1, 200, 500}

\* the POST requests one call of request issues (lines 66-109 under @retry):
\* every request but the last failed and was retried, and the last one
\* succeeded or was the last attempt
IsRequestRun(run) ==
    /\ Len(run) >= 1
    /\ \A i \in 1..(Len(run) - 1) :
          /\ IsNetworkError(run[i]) \/ RaisesForStatus(run[i])
          /\ RetryOnException(run[i])
          /\ ~StopAfterAttempt(i)
    /\ \/ ~(IsNetworkError(run[Len(run)]) \/ RaisesForStatus(run[Len(run)]))
       \/ StopAfterAttempt(Len(run))

TokenPostRuns ==
    {run \in UNION {[1..n -> TokenHttpOutcomes] : n \in 1..(MaxAttempts + 1)} :
        IsRequestRun(run)}

\* lines 288-304: what get_editor_token_info can return after the run: the
\* editor info of a 200 answer that holds an editorToken, or None
EditorInfos(run) ==
    IF run[Len(run)] = 200 THEN {"None", "APITOKEN"} ELSE {"None"}

\* lines 308-346: the enabled check and the choice of the token
WsSelectToken ==
    /\ wsPc = "call"
    /\ IF ~ws_config.enabled
       THEN /\ wsPc' = "returned"
            /\ wsResult' = "None"
            /\ UNCHANGED <<token, tokenCalls, token_posts>>
       ELSE IF StripToken(ws_config.editor_token) # ""
       THEN /\ token' = StripToken(ws_config.editor_token)
            /\ wsPc' = "connect"
            /\ UNCHANGED <<tokenCalls, token_posts, wsResult>>
       ELSE \E run \in TokenPostRuns : \E editor_info \in EditorInfos(run) :
            /\ tokenCalls' = tokenCalls + 1
            /\ token_posts' = token_posts + Len(run)
            /\ IF editor_info = "None"
               THEN /\ wsPc' = "returned"
                    /\ wsResult' = "None"
                    /\ UNCHANGED token
               ELSE /\ token' = editor_info
                    /\ wsPc' = "connect"
                    /\ UNCHANGED wsResult
    /\ UNCHANGED <<ws_config, opened, closed, sent, recvd, message_count,
                   session_id, handshake_sent, note_payload>>
    /\ UNCHANGED notWs

\* lines 373-384: websocket.create_connection
WsConnect ==
    /\ wsPc = "connect"
    /\ \E connected \in BOOLEAN :
        IF connected
        THEN /\ opened' = TRUE
             /\ wsPc' = "handshake"
             /\ UNCHANGED wsResult
        ELSE /\ wsPc' = "returned"
             /\ wsResult' = "None"
             /\ UNCHANGED opened
    /\ UNCHANGED <<ws_config, token, tokenCalls, closed, sent, recvd,
                   message_count, session_id, handshake_sent, note_payload>>
    /\ UNCHANGED token_posts
    /\ UNCHANGED notWs

\* where the function goes after the first handshake was sent
AfterFirstHandshake(cfg) == IF cfg.init_payload # "" THEN "init_payload" ELSE "pump"

\* lines 401-403: the first handshake, sent outside any try block
WsFirstHandshake ==
    /\ wsPc = "handshake"
    /\ \E send_ok \in BOOLEAN :
        IF send_ok
        THEN /\ sent' = Append(sent, handshake_msg(token))
             /\ wsPc' = AfterFirstHandshake(ws_config)
        ELSE /\ wsPc' = "raised"
             /\ UNCHANGED sent
    /\ UNCHANGED <<ws_config, token, tokenCalls, opened, closed, recvd,
                   message_count, session_id, handshake_sent, note_payload,
                   wsResult>>
    /\ UNCHANGED token_posts
    /\ UNCHANGED notWs

\* lines 405-427: the optional init payload, sent outside any try block
WsInitPayload ==
    /\ wsPc = "init_payload"
    /\ \E send_ok \in BOOLEAN :
        IF send_ok
        THEN /\ sent' = Append(sent, init_payload_msg(ws_config))
             /\ wsPc' = "pump"
        ELSE /\ wsPc' = "raised"
             /\ UNCHANGED sent
    /\ UNCHANGED <<ws_config, token, tokenCalls, opened, closed, recvd,
                   message_count, session_id, handshake_sent, note_payload,
                   wsResult>>
    /\ UNCHANGED token_posts
    /\ UNCHANGED notWs

\* the `finally: ws.close()` of the pump
PumpFinally == TRUE

\* a slip: a payload returned when none was captured
PumpResult_NeverNone(payload) == IF payload = "None" THEN "X1" ELSE payload

\* lines 495-499: the function's result after the pump
PumpResult(payload) == payload

\* lines 436-444: ws.recv() times out or finds the connection closed: the
\* loop breaks, the finally closes the socket and the function returns
WsRecvBreak ==
    /\ wsPc = "pump"
    /\ closed' = PumpFinally
    /\ wsPc' = "returned"
    /\ wsResult' = PumpResult(note_payload)
    /\ UNCHANGED <<ws_config, token, tokenCalls, opened, sent, recvd,
                   message_count, session_id, handshake_sent, note_payload>>
    /\ UNCHANGED token_posts
    /\ UNCHANGED notWs

\* ws.recv() raises anything else: the finally closes the socket and the
\* exception leaves the function
WsRecvError ==
    /\ wsPc = "pump"
    /\ closed' = PumpFinally
    /\ wsPc' = "raised"
    /\ UNCHANGED <<ws_config, token, tokenCalls, opened, sent, recvd,
                   message_count, session_id, handshake_sent, note_payload,
                   wsResult>>
    /\ UNCHANGED token_posts
    /\ UNCHANGED notWs

\* lines 437-490: one iteration of the pump on a received frame
WsRecvFrame ==
    /\ wsPc = "pump"
    /\ message_count < MaxRecv
    /\ \E m \in WireFrames, send_ok \in BOOLEAN :
        /\ recvd' = Append(recvd, m)
        /\ message_count' = message_count + 1
        /\ IF IsEmptyMessage(m) \/ ~DecodesUtf8(m) \/ ~ParsesJson(m)
           THEN \* continue
                /\ send_ok
                /\ UNCHANGED <<wsPc, closed, sent, session_id, handshake_sent,
                               note_payload, wsResult>>
           ELSE IF ~IsDict(m)
           THEN \* payload.get raises AttributeError
                /\ send_ok
                /\ closed' = PumpFinally
                /\ wsPc' = "raised"
                /\ UNCHANGED <<sent, session_id, handshake_sent, note_payload,
                               wsResult>>
           ELSE IF IsInitResend(m, handshake_sent)
           THEN /\ session_id' = "SID"
                /\ IF send_ok
                   THEN /\ sent' = Append(sent, handshake_msg(token))
                        /\ handshake_sent' = TRUE
                        /\ UNCHANGED <<wsPc, closed>>
                   ELSE /\ closed' = PumpFinally
                        /\ wsPc' = "raised"
                        /\ UNCHANGED <<sent, handshake_sent>>
                /\ UNCHANGED <<note_payload, wsResult>>
           ELSE IF IsHandshakeAck(m)
           THEN /\ IF send_ok
                   THEN /\ sent' = Append(sent, f_request)
                        /\ UNCHANGED <<wsPc, closed>>
                   ELSE /\ closed' = PumpFinally
                        /\ wsPc' = "raised"
                        /\ UNCHANGED sent
                /\ UNCHANGED <<session_id, handshake_sent, note_payload, wsResult>>
           ELSE IF IsDocument(m)
           THEN /\ send_ok
                /\ note_payload' = m.data
                /\ closed' = PumpFinally
                /\ wsPc' = "returned"
                /\ wsResult' = PumpResult(m.data)
                /\ UNCHANGED <<sent, session_id, handshake_sent>>
           ELSE /\ send_ok
                /\ UNCHANGED <<wsPc, closed, sent, session_id, handshake_sent,
                               note_payload, wsResult>>
    /\ UNCHANGED <<ws_config, token, tokenCalls, opened>>
    /\ UNCHANGED token_posts
    /\ UNCHANGED notWs

\* the notes one run makes a socket attempt for
MaxSessions == 2

SsIdle ==
    /\ ss_doc = 0
    /\ ss_unclosed = 0

SsInit ==
    /\ ss_doc = 1
    /\ ss_unclosed = 0

\* the connection of the attempt is open and close() was not called on it
IsUnclosed == opened /\ ~closed

\* main.py 350-362: the attempt for one note is over (it returned, or raised
\* into the except of line 389) and the loop calls
\* get_note_detail_via_websocket for the next note. Nothing closes a
\* connection the attempt left open: it stays open until the interpreter
\* reclaims the object, which may be before the next connection is made or
\* not at all.
SsNextDocument ==
    /\ wsPc \in {"returned", "raised"}
    /\ ss_doc >= 1
    /\ ss_doc < MaxSessions
    /\ ss_doc' = ss_doc + 1
    /\ \E still_open \in 0..(ss_unclosed + IF IsUnclosed THEN 1 ELSE 0) :
          ss_unclosed' = still_open
    /\ wsPc' = "call"
    /\ token' = "None"
    /\ opened' = FALSE
    /\ closed' = FALSE
    /\ sent' = <<>>
    /\ recvd' = <<>>
    /\ message_count' = 0
    /\ session_id' = "None"
    /\ handshake_sent' = FALSE
    /\ note_payload' = "None"
    /\ wsResult' = "pending"
    /\ tokenCalls' = 0
    /\ token_posts' = 0
    /\ UNCHANGED ws_config
    /\ UNCHANGED <<rqVars, rlVars, pgVars, stVars, exVars, bkVars, cvVars, fdVars>>

\* lines 446-488: the iteration on the frame reaches a `continue`, or the
\* end of the loop body, without a send and without a change of the locals
IsPassedOver(m, hs_sent) ==
    \/ IsEmptyMessage(m) \/ ~DecodesUtf8(m) \/ ~ParsesJson(m)
    \/ /\ IsDict(m)
       /\ ~IsInitResend(m, hs_sent)
       /\ ~IsHandshakeAck(m)
       /\ ~IsDocument(m)

\* lines 434-490 once MaxRecv frames were received: the server goes on with
\* frames the pump passes over, each within the message timeout. recvd keeps
\* the last MaxRecv frames and message_count stays at MaxRecv.
WsRecvBeyond ==
    /\ wsPc = "pump"
    /\ message_count = MaxRecv
    /\ \E m \in WireFrames :
        /\ IsPassedOver(m, handshake_sent)
        /\ recvd' = Append(Tail(recvd), m)
    /\ UNCHANGED <<ws_config, wsPc, token, tokenCalls, token_posts, opened,
                   closed, sent, message_count, session_id, handshake_sent,
                   note_payload, wsResult>>
    /\ UNCHANGED notWs

(***************************************************************************)
(* rate_limit and _apply_rate_limit                                        *)
(***************************************************************************)
\* the operations a caller invokes on the client; all but request are public
\* methods that _apply_rate_limit wraps
ClientMethods == {"get_all_folders", "download_note", "request"}

\* line 63: the methods _apply_rate_limit wraps
IsRateLimited(name) == name # "request"

\* line 64: every wrapped method gets a decorator of its own, and line 26
\* gives every decorator its own last_called
LimiterOf(name) == name

Limiters == {LimiterOf(name) : name \in {m \in ClientMethods : IsRateLimited(m)}}

\* line 27: min_interval = 1.0 / calls_per_second, in ticks
TicksPerInterval == 2

min_interval == TicksPerInterval

\* outbound calls in one run of the model
MaxCalls == 3

\* how long one call lasts at most, in ticks
MaxDuration == 1

\* idle time between calls stops at this clock value
MaxIdleClock == 6

\* lines 31-34: when the wrapped function starts
StartOfCall(name) ==
    LET elapsed == now - last_called[LimiterOf(name)]
        left_to_wait == min_interval - elapsed
    IN  IF left_to_wait > 0 THEN now + left_to_wait ELSE now

RlIdle ==
    /\ now = 0
    /\ last_called = [l \in Limiters |-> 0]
    /\ calls = <<>>

\* last_called starts at 0.0 and time.time() is seconds since the epoch: the
\* first call of a method never waits
RlInit ==
    /\ now = min_interval
    /\ last_called = [l \in Limiters |-> 0]
    /\ calls = <<>>

\* lines 30-37: a call of a wrapped method
RlWrappedCall ==
    /\ Len(calls) < MaxCalls
    /\ \E name \in ClientMethods, duration \in 0..MaxDuration :
        /\ IsRateLimited(name)
        /\ calls' = Append(calls, [op |-> name, at |-> StartOfCall(name)])
        /\ now' = StartOfCall(name) + duration
        /\ last_called' = [last_called EXCEPT
                             ![LimiterOf(name)] = StartOfCall(name) + duration]
    /\ UNCHANGED notRl

\* lines 63, 70: request is left unwrapped; a direct call starts at once
RlDirectCall ==
    /\ Len(calls) < MaxCalls
    /\ \E name \in ClientMethods, duration \in 0..MaxDuration :
        /\ ~IsRateLimited(name)
        /\ calls' = Append(calls, [op |-> name, at |-> now])
        /\ now' = now + duration
        /\ UNCHANGED last_called
    /\ UNCHANGED notRl

\* time passes between two calls
RlTimePasses ==
    /\ now < MaxIdleClock
    /\ now' = now + 1
    /\ UNCHANGED <<last_called, calls>>
    /\ UNCHANGED notRl

(***************************************************************************)
(* get_all_notes_in_folder                                                 *)
(***************************************************************************)
\* line 186: count = 100
count == 100

\* the largest folder of the model
MaxNotes == 201

Min(a, b) == IF a < b THEN a ELSE b

\* the server of the claim: up to cnt notes from offset st on, in its order;
\* note i of the folder is the number i
ServerPage(n, st, cnt) ==
    [i \in 1..Min(cnt, IF n > st THEN n - st ELSE 0) |-> st + i]

\* lines 134-181: get_notes_in_folder hands the server's list back as 'notes'
get_notes_in_folder(n, st, cnt) == ServerPage(n, st, cnt)

\* what a page request can be answered with instead: a 200 whose returnCode
\* is not 200, a 200 whose body does not parse, a 200 whose JSON is neither
\* a list nor an object
PageErrors == {"returnCode", "unparseable", "other_json"}

\* a slip: the notes of the answer handed back in spite of the error
NotesOnError_KeepsPage(reply, n, st, cnt) == ServerPage(n, st, cnt)

\* lines 160-181: every such answer falls through to
\* `return {'notes': [], 'total': 0}`
NotesOnError(reply, n, st, cnt) == <<>>

\* line 198: start += len(notes)
NextStart(st, page) == st + Len(page)

\* a slip: a full page taken for the last one
IsShortPage_OrFull(page, cnt) == Len(page) <= cnt

\* line 201: len(notes) < count
IsShortPage(page, cnt) == Len(page) < cnt

PgIdle ==
    /\ folder_size = 0
    /\ pgPc = "off"
    /\ start = 0
    /\ notes = <<>>
    /\ note_idx = 0
    /\ pages = <<>>
    /\ yielded = <<>>

PgInit ==
    /\ folder_size \in 0..MaxNotes
    /\ pgPc = "request"
    /\ start = 0
    /\ notes = <<>>
    /\ note_idx = 0
    /\ pages = <<>>
    /\ yielded = <<>>

\* lines 189-193: request a page; an empty page ends the generator
PgRequest ==
    /\ pgPc = "request"
    /\ notes' = get_notes_in_folder(folder_size, start, count)
    /\ pages' = Append(pages, [start |-> start, returned |-> Len(notes'),
                               yielded_before |-> Len(yielded),
                               reply |-> "notes"])
    /\ note_idx' = 1
    /\ pgPc' = IF notes' = <<>> THEN "done" ELSE "yield"
    /\ UNCHANGED <<folder_size, start, yielded>>
    /\ UNCHANGED notPg

\* lines 189-193 when the page request is answered with an error of the
\* application
PgRequestFails ==
    /\ pgPc = "request"
    /\ \E reply \in PageErrors :
        /\ notes' = NotesOnError(reply, folder_size, start, count)
        /\ pages' = Append(pages, [start |-> start, returned |-> Len(notes'),
                                   yielded_before |-> Len(yielded),
                                   reply |-> reply])
    /\ note_idx' = 1
    /\ pgPc' = IF notes' = <<>> THEN "done" ELSE "yield"
    /\ UNCHANGED <<folder_size, start, yielded>>
    /\ UNCHANGED notPg

\* lines 195-196: yield the next note of the page
PgYield ==
    /\ pgPc = "yield"
    /\ yielded' = Append(yielded, notes[note_idx])
    /\ IF note_idx < Len(notes)
       THEN note_idx' = note_idx + 1 /\ UNCHANGED pgPc
       ELSE pgPc' = "advance" /\ UNCHANGED note_idx
    /\ UNCHANGED <<folder_size, start, notes, pages>>
    /\ UNCHANGED notPg

\* lines 198-202: move the offset; a short page ends the generator
PgAdvance ==
    /\ pgPc = "advance"
    /\ start' = NextStart(start, notes)
    /\ pgPc' = IF IsShortPage(notes, count) THEN "done" ELSE "request"
    /\ UNCHANGED <<folder_size, notes, note_idx, pages, yielded>>
    /\ UNCHANGED notPg

(***************************************************************************)
(* JsonToMarkdownConverter._apply_text_styles                              *)
(* A string is the sequence of its characters.                             *)
(***************************************************************************)
\* the longest run text of the model
MaxTextLen == 2

TextChars == {"x", " "}

RunTexts == UNION {[1..n -> TextChars] : n \in 0..MaxTextLen}

StyleKeys == {"style-bold", "style-italic", "style-strike", "style-code",
              "style-color-6"}

\* the character U+0060, which a TLA+ string cannot hold
Backquote == "backquote"

\* f"{mark}{text}{mark}"
Wrap(mark, text) == mark \o text \o mark

\* lines 203-229; attributes is the set of the keys whose value is truthy
apply_text_styles(text, attributes) ==
    IF attributes = {} THEN text
    ELSE LET bold == IF "style-bold" \in attributes
                     THEN Wrap(<<"*", "*">>, text) ELSE text
             italic == IF "style-italic" \in attributes
                       THEN Wrap(<<"*">>, bold) ELSE bold
             strike == IF "style-strike" \in attributes
                       THEN Wrap(<<"~", "~">>, italic) ELSE italic
             code == IF "style-code" \in attributes
                     THEN Wrap(<<Backquote>>, strike) ELSE strike
         IN  code

Pending == <<"pending">>

StIdle ==
    /\ st_text = <<>>
    /\ st_attributes = {}
    /\ st_result = <<"off">>

StInit ==
    /\ st_text \in RunTexts
    /\ st_attributes \in SUBSET StyleKeys
    /\ st_result = Pending

StApply ==
    /\ st_result = Pending
    /\ st_result' = apply_text_styles(st_text, st_attributes)
    /\ UNCHANGED <<st_text, st_attributes>>
    /\ UNCHANGED notSt

(***************************************************************************)
(* export_notes_to_markdown                                                *)
(***************************************************************************)
\* folders get_all_folders returns at most
MaxFolders == 2

\* notes the listings of one run yield at most
MaxDocs == 3

\* sanitize_filename's max_length
max_length == 80

\* the titles the server gives the notes
Titles == {<<"a", "/", "b">>, <<"a", "_", "b">>}

invalid_chars == {"/", "\\", ":", "*", "?", "\"", "<", ">", "|"}

RECURSIVE LStrip(_)
LStrip(str) ==
    IF str # <<>> /\ Head(str) = " " THEN LStrip(Tail(str)) ELSE str

RECURSIVE RStrip(_)
RStrip(str) ==
    IF str # <<>> /\ str[Len(str)] = " "
    THEN RStrip(SubSeq(str, 1, Len(str) - 1)) ELSE str

\* str.strip() for the blank character
Strip(str) == LStrip(RStrip(str))

\* main.py 109-117
sanitize_filename(name, fallback) ==
    LET named == IF name = <<>> THEN fallback ELSE name
        replaced == [i \in 1..Len(named) |->
                        IF named[i] \in invalid_chars THEN "_" ELSE named[i]]
        stripped == IF Strip(replaced) = <<>> THEN fallback ELSE Strip(replaced)
    IN  SubSeq(stripped, 1, Min(Len(stripped), max_length))

\* main.py 429-430: the file a note is written to
output_file(folder, title) ==
    [dir |-> folder,
     name |-> sanitize_filename(title, <<"d", "o", "c">>) \o <<".", "m", "d">>]

\* what the try block of the socket path (main.py 362-390) can come to:
\* get_note_detail_via_websocket raises, or returns nothing; the payload is
\* no object; convert raises, or returns "", blank text, or text
SocketOutcomes == {"raises", "nothing", "not_object", "convert_raises",
                   "convert_empty", "convert_blank", "convert_text"}

\* what the try block of the REST path (main.py 394-413) can come to
RestOutcomes == {"raises", "nothing", "convert_raises", "convert_empty",
                 "convert_blank", "convert_text"}

\* the value of markdown after a conversion that returned
ConvertedMarkdown(outcome, text) ==
    CASE outcome = "convert_empty" -> ""
      [] outcome = "convert_blank" -> " "
      [] outcome = "convert_text" -> text

\* `markdown and markdown.strip()`
HasContent(md) == md \notin {"None", "", " "}

\* a slip: only a missing result falls back
NeedsRestFallback_NoneOnly(md) == md = "None"

\* a slip: the REST path taken whatever the socket path gave
NeedsRestFallback_Always(md) == TRUE

\* main.py 393: `if not markdown or not markdown.strip()`
NeedsRestFallback(md) == ~HasContent(md)

\* a slip: only a missing result counts as a failure
IsFinalFailure_NoneOnly(md) == md = "None"

\* main.py 416: `if not markdown or not markdown.strip()`
IsFinalFailure(md) == ~HasContent(md)

\* a slip: the record does not name the note
failure_record_NoGuid(doc, folder, error) ==
    [doc_guid |-> 0, folder |-> folder, error |-> error]

\* main.py 418-424 and 438-444: the record appended to conversion_failures
failure_record(doc, folder, error) ==
    [doc_guid |-> doc, folder |-> folder, error |-> error]

NoNote == [doc |-> 0, title |-> <<>>, ws |-> "not_called", rest |-> "not_called",
           write |-> "not_tried"]

ExIdle ==
    /\ websocket_available = FALSE
    /\ exPc = "off"
    /\ folders_left = 0
    /\ folder_path = 0
    /\ total_notes = 0
    /\ success_notes = 0
    /\ failed_notes = 0
    /\ websocket_success = 0
    /\ rest_fallback_success = 0
    /\ conversion_failures = <<>>
    /\ markdown = "None"
    /\ used_api = "None"
    /\ cur = NoNote
    /\ files = {}

ExInit ==
    /\ websocket_available \in BOOLEAN
    /\ exPc = "start"
    /\ folders_left = 0
    /\ folder_path = 0
    /\ total_notes = 0
    /\ success_notes = 0
    /\ failed_notes = 0
    /\ websocket_success = 0
    /\ rest_fallback_success = 0
    /\ conversion_failures = <<>>
    /\ markdown = "None"
    /\ used_api = "None"
    /\ cur = NoNote
    /\ files = {}

\* main.py 304-307: get_all_folders raises, or returns no folder, or some
ExStart ==
    /\ exPc = "start"
    /\ \E listed \in {"raises", "returns"} :
        IF listed = "raises"
        THEN exPc' = "aborted" /\ UNCHANGED folders_left
        ELSE \E n \in 0..MaxFolders :
                /\ folders_left' = n
                /\ exPc' = IF n = 0 THEN "done" ELSE "folder"
    /\ UNCHANGED <<websocket_available, folder_path, total_notes, success_notes,
                   failed_notes, websocket_success, rest_fallback_success,
                   conversion_failures, markdown, used_api, cur, files>>
    /\ UNCHANGED notEx

\* main.py 343-348 and 447-468: the folder loop starts the next folder, or
\* ends and the function returns
ExNextFolder ==
    /\ exPc = "folder"
    /\ IF folders_left = 0
       THEN exPc' = "done" /\ UNCHANGED <<folders_left, folder_path>>
       ELSE /\ folders_left' = folders_left - 1
            /\ folder_path' = folder_path + 1
            /\ exPc' = "note"
    /\ UNCHANGED <<websocket_available, total_notes, success_notes,
                   failed_notes, websocket_success, rest_fallback_success,
                   conversion_failures, markdown, used_api, cur, files>>
    /\ UNCHANGED notEx

\* main.py 350-358: the note loop takes the next note of the listing
ExNextNote ==
    /\ exPc = "note"
    /\ total_notes < MaxDocs
    /\ \E title \in Titles :
        /\ total_notes' = total_notes + 1
        /\ cur' = [NoNote EXCEPT !.doc = total_notes + 1, !.title = title]
        /\ markdown' = "None"
        /\ used_api' = "None"
        /\ exPc' = IF websocket_available THEN "socket" ELSE "rest"
    /\ UNCHANGED <<websocket_available, folders_left, folder_path, success_notes,
                   failed_notes, websocket_success, rest_fallback_success,
                   conversion_failures, files>>
    /\ UNCHANGED notEx

\* main.py 350: the listing of the folder is exhausted
ExListingEnds ==
    /\ exPc = "note"
    /\ exPc' = "folder"
    /\ UNCHANGED <<websocket_available, folders_left, folder_path, total_notes,
                   success_notes, failed_notes, websocket_success,
                   rest_fallback_success, conversion_failures, markdown,
                   used_api, cur, files>>
    /\ UNCHANGED notEx

\* main.py 350: get_all_notes_in_folder raises while the loop asks for the
\* next note (a page request failed); nothing in the function catches it
ExListingRaises ==
    /\ exPc = "note"
    /\ exPc' = "aborted"
    /\ UNCHANGED <<websocket_available, folders_left, folder_path, total_notes,
                   success_notes, failed_notes, websocket_success,
                   rest_fallback_success, conversion_failures, markdown,
                   used_api, cur, files>>
    /\ UNCHANGED notEx

\* main.py 361-393: the socket path, then the test for the fallback
ExSocket ==
    /\ exPc = "socket"
    /\ \E outcome \in SocketOutcomes :
        /\ cur' = [cur EXCEPT !.ws = outcome]
        /\ IF outcome \in {"convert_empty", "convert_blank", "convert_text"}
           THEN /\ markdown' = ConvertedMarkdown(outcome, "MD_SOCKET")
                /\ IF HasContent(markdown')
                   THEN /\ used_api' = "WebSocket"
                        /\ websocket_success' = websocket_success + 1
                   ELSE UNCHANGED <<used_api, websocket_success>>
           ELSE UNCHANGED <<markdown, used_api, websocket_success>>
        /\ exPc' = IF NeedsRestFallback(markdown') THEN "rest" ELSE "check"
    /\ UNCHANGED <<websocket_available, folders_left, folder_path, total_notes,
                   success_notes, failed_notes, rest_fallback_success,
                   conversion_failures, files>>
    /\ UNCHANGED notEx

\* main.py 394-413: the REST path
ExRest ==
    /\ exPc = "rest"
    /\ \E outcome \in RestOutcomes :
        /\ cur' = [cur EXCEPT !.rest = outcome]
        /\ IF outcome \in {"convert_empty", "convert_blank", "convert_text"}
           THEN /\ markdown' = ConvertedMarkdown(outcome, "MD_REST")
                /\ IF HasContent(markdown')
                   THEN /\ used_api' = "REST"
                        /\ rest_fallback_success' = rest_fallback_success + 1
                   ELSE UNCHANGED <<used_api, rest_fallback_success>>
           ELSE UNCHANGED <<markdown, used_api, rest_fallback_success>>
        /\ exPc' = "check"
    /\ UNCHANGED <<websocket_available, folders_left, folder_path, total_notes,
                   success_notes, failed_notes, websocket_success,
                   conversion_failures, files>>
    /\ UNCHANGED notEx

\* main.py 416-426: no Markdown: record the failure and go on with the next note
ExCheck ==
    /\ exPc = "check"
    /\ IF IsFinalFailure(markdown)
       THEN /\ failed_notes' = failed_notes + 1
            /\ conversion_failures' = Append(conversion_failures,
                   failure_record(cur.doc, folder_path, "all_failed"))
            /\ exPc' = "note"
       ELSE /\ exPc' = "write"
            /\ UNCHANGED <<failed_notes, conversion_failures>>
    /\ UNCHANGED <<websocket_available, folders_left, folder_path, total_notes,
                   success_notes, websocket_success, rest_fallback_success,
                   markdown, used_api, cur, files>>
    /\ UNCHANGED notEx

\* main.py 428-445: write the Markdown file
ExWrite ==
    /\ exPc = "write"
    /\ \E written \in BOOLEAN :
        IF written
        THEN /\ files' = {f \in files : f.path # output_file(folder_path, cur.title)}
                         \cup {[path |-> output_file(folder_path, cur.title),
                                doc |-> cur.doc, api |-> used_api,
                                content |-> markdown]}
             /\ success_notes' = success_notes + 1
             /\ cur' = [cur EXCEPT !.write = "written"]
             /\ UNCHANGED <<failed_notes, conversion_failures>>
        ELSE /\ failed_notes' = failed_notes + 1
             /\ conversion_failures' = Append(conversion_failures,
                    failure_record(cur.doc, folder_path, "write_failed"))
             /\ cur' = [cur EXCEPT !.write = "failed"]
             /\ UNCHANGED <<files, success_notes>>
    /\ exPc' = "note"
    /\ UNCHANGED <<websocket_available, folders_left, folder_path, total_notes,
                   websocket_success, rest_fallback_success, markdown, used_api>>
    /\ UNCHANGED notEx

(***************************************************************************)
(* export_notes_to_markdown: the folders of a run                          *)
(* A folder is its path; the paths are numbered in their sort order.       *)
(***************************************************************************)
\* paths of the knowledge base
MaxPaths == 3

Paths == 1..MaxPaths

\* a path no folder of the knowledge base has
NoSuchPath == MaxPaths + 1

\* folders_filter: None, or a list of paths
NoFilter == [given |-> FALSE, paths |-> {}]

Filter(paths) == [given |-> TRUE, paths |-> paths]

\* line 322: `if folders_filter`: a list that is not empty
IsFiltering(f) == f.given /\ f.paths # {}

\* line 324: the folders whose path is in the filter
Filtered(all_folders, f) == {p \in all_folders : p \in f.paths}

\* lines 320-327: normalized_folders after the filter was applied
SelectFolders(all_folders, f) ==
    IF ~IsFiltering(f) THEN all_folders
    ELSE IF Filtered(all_folders, f) = {} THEN all_folders
    ELSE Filtered(all_folders, f)

\* line 343: sorted(normalized_folders, key=path): the first of those left
NextFolderOf(left) == CHOOSE p \in left : \A q \in left : p <= q

FdIdle ==
    /\ fdPc = "off"
    /\ folders = {}
    /\ folders_filter = NoFilter
    /\ normalized_folders = {}
    /\ exported_folders = <<>>

FdInit ==
    /\ fdPc = "start"
    /\ folders \in SUBSET Paths
    /\ \/ folders_filter = NoFilter
       \/ \E paths \in SUBSET (Paths \cup {NoSuchPath}) :
             folders_filter = Filter(paths)
    /\ normalized_folders = {}
    /\ exported_folders = <<>>

\* lines 304-327: no folder: return; otherwise apply the filter
FdSelect ==
    /\ fdPc = "start"
    /\ IF folders = {}
       THEN /\ fdPc' = "returned"
            /\ UNCHANGED normalized_folders
       ELSE /\ normalized_folders' = SelectFolders(folders, folders_filter)
            /\ fdPc' = "loop"
    /\ UNCHANGED <<folders, folders_filter, exported_folders>>
    /\ UNCHANGED <<wsVars, rqVars, rlVars, pgVars, stVars, exVars, bkVars,
                   cvVars, ssVars>>

\* lines 343-350: the folder loop exports the next folder in path order
FdExportFolder ==
    /\ fdPc = "loop"
    /\ normalized_folders \ {exported_folders[i] : i \in DOMAIN exported_folders} # {}
    /\ exported_folders' =
          Append(exported_folders,
                 NextFolderOf(normalized_folders
                     \ {exported_folders[i] : i \in DOMAIN exported_folders}))
    /\ UNCHANGED <<fdPc, folders, folders_filter, normalized_folders>>
    /\ UNCHANGED <<wsVars, rqVars, rlVars, pgVars, stVars, exVars, bkVars,
                   cvVars, ssVars>>

\* lines 343 and 447-468: the loop is through and the function returns
FdReturn ==
    /\ fdPc = "loop"
    /\ normalized_folders = {exported_folders[i] : i \in DOMAIN exported_folders}
    /\ fdPc' = "returned"
    /\ UNCHANGED <<folders, folders_filter, normalized_folders, exported_folders>>
    /\ UNCHANGED <<wsVars, rqVars, rlVars, pgVars, stVars, exVars, bkVars,
                   cvVars, ssVars>>

(***************************************************************************)
(* JsonToMarkdownConverter: one block                                      *)
(* A block is a record of the fields the converter reads; a field the      *)
(* document leaves out has the value dict.get defaults to.                 *)
(***************************************************************************)
\* runs of one text block
MaxRuns == 2

\* the highest heading level
MaxHeading == 2

MaxRows == 2

MaxCols == 2

\* cell ids in the children of one table block
MaxCells == 4

Run(insert, attributes) == [insert |-> insert, attributes |-> attributes]

BlockTexts == {<<"A">>, <<" ", "B", " ">>, <<>>}

RunAttributes == {{}, {"style-bold"}, {"style-bold", "style-code"}}

Runs == {Run(t, a) : t \in BlockTexts, a \in RunAttributes}

RunSeqs == UNION {[1..n -> Runs] : n \in 0..MaxRuns}

\* block.get('heading'): 0 stands for an absent or falsy level
Headings == -1..MaxHeading

\* block.get('type', 'text'); "image" stands for the unknown types
Types == {"absent", "text", "table", "image"}

Block(type, text, heading, quoted, rows, cols, children, hasRowTitle) ==
    [type |-> type, text |-> text, heading |-> heading, quoted |-> quoted,
     rows |-> rows, cols |-> cols, children |-> children,
     hasRowTitle |-> hasRowTitle]

\* block.get('rows', 0) and block.get('cols', 0): 0 also stands for a count
\* the block leaves out, -1 for the negative counts
RowCounts == -1..MaxRows

ColCounts == -1..MaxCols

CellIds == {"c1", "c2", "c3", "c4", "c5"}

ChildrenSeqs == UNION {[1..n -> CellIds] : n \in 0..MaxCells}

\* a block of a table cell: 'text' may be missing from it
CellBlock(text) == [has_text |-> TRUE, text |-> text]

NoTextCellBlock == [has_text |-> FALSE, text |-> <<>>]

\* what root_data holds under a cell id: a list of blocks, or something else
CellList(blocks) == [is_list |-> TRUE, blocks |-> blocks]

NotAList == [is_list |-> FALSE, blocks |-> <<>>]

\* root_data of the example: four cells with the texts A, B, C, D; no c5
SideMapPlain ==
    ("c1" :> CellList(<<CellBlock(<<Run(<<"A">>, {})>>)>>)) @@
    ("c2" :> CellList(<<CellBlock(<<Run(<<"B">>, {})>>)>>)) @@
    ("c3" :> CellList(<<CellBlock(<<Run(<<"C">>, {})>>)>>)) @@
    ("c4" :> CellList(<<CellBlock(<<Run(<<"D">>, {})>>)>>))

\* root_data with styled runs, several blocks in a cell, a block without
\* text, an empty cell and an entry that is no list
SideMapStyled ==
    ("c1" :> CellList(<<CellBlock(<<Run(<<"A">>, {"style-bold"})>>)>>)) @@
    ("c2" :> CellList(<<CellBlock(<<Run(<<" ", "B">>, {})>>),
                        NoTextCellBlock,
                        CellBlock(<<Run(<<"C", " ">>, {})>>)>>)) @@
    ("c3" :> CellList(<<>>)) @@
    ("c4" :> CellList(<<CellBlock(<<Run(<<"A">>, {}),
                                    Run(<<"B">>, {"style-code"})>>)>>)) @@
    ("c5" :> NotAList)

SideMaps == {SideMapPlain, SideMapStyled}

\* sep.join(parts)
RECURSIVE JoinStr(_, _)
JoinStr(parts, sep) ==
    IF parts = <<>> THEN <<>>
    ELSE IF Len(parts) = 1 THEN parts[1]
    ELSE parts[1] \o sep \o JoinStr(Tail(parts), sep)

\* lines 181-188 and 270-276: ''.join of the styled runs
RECURSIVE StyledRuns(_)
StyledRuns(text_content) ==
    IF text_content = <<>> THEN <<>>
    ELSE apply_text_styles(text_content[1].insert, text_content[1].attributes)
            \o StyledRuns(Tail(text_content))

\* '#' * heading_level
Hashes(heading_level) ==
    IF heading_level <= 0 THEN <<>> ELSE [i \in 1..heading_level |-> "#"]

\* a slip: the quote flag tested before the heading
Prefix_QuoteFirst(heading, quoted) ==
    IF quoted THEN <<">", " ">>
    ELSE IF heading # 0 THEN Hashes(heading) \o <<" ">>
    ELSE <<>>

\* lines 193-199: what is put before the text
Prefix(heading, quoted) ==
    IF heading # 0 THEN Hashes(heading) \o <<" ">>
    ELSE IF quoted THEN <<">", " ">>
    ELSE <<>>

\* lines 172-201
convert_text_block(block) ==
    IF block.text = <<>> THEN <<>>
    ELSE Prefix(block.heading, block.quoted) \o Strip(StyledRuns(block.text))

\* lines 268-276: the texts of the cell's blocks that have a 'text'
RECURSIVE CellTexts(_)
CellTexts(cell_blocks) ==
    IF cell_blocks = <<>> THEN <<>>
    ELSE (IF cell_blocks[1].has_text
          THEN <<StyledRuns(cell_blocks[1].text)>> ELSE <<>>)
            \o CellTexts(Tail(cell_blocks))

\* lines 257-278
get_cell_content(cell_id, root_data) ==
    IF cell_id \notin DOMAIN root_data THEN <<>>
    ELSE IF ~root_data[cell_id].is_list THEN <<>>
    ELSE Strip(JoinStr(CellTexts(root_data[cell_id].blocks), <<" ">>))

\* a slip: the children read column by column
CellIndex_ColumnMajor(i, j, cols) == j * cols + i

\* line 245: cell_index = i * cols + j, counted from 0
CellIndex(i, j, cols) == i * cols + j

\* lines 241-252
TableData(block, root_data) ==
    [i \in 1..block.rows |->
        [j \in 1..block.cols |->
            IF CellIndex(i - 1, j - 1, block.cols) < Len(block.children)
            THEN get_cell_content(
                    block.children[CellIndex(i - 1, j - 1, block.cols) + 1],
                    root_data)
            ELSE <<>>]]

\* '| ' + ' | '.join(row) + ' |'
TableLine(row) == <<"|", " ">> \o JoinStr(row, <<" ", "|", " ">>) \o <<" ", "|">>

\* lines 280-300; has_header is not read
format_markdown_table(table_data, has_header) ==
    IF table_data = <<>> THEN <<>>
    ELSE LET header == table_data[1]
             separator == TableLine([j \in 1..Len(header) |-> <<"-", "-", "-">>])
             data_rows == [k \in 1..(Len(table_data) - 1) |->
                              TableLine(table_data[k + 1])]
         IN  JoinStr(<<TableLine(header), separator>> \o data_rows, <<"\n">>)

\* lines 231-255
convert_table_block(block, root_data) ==
    IF block.rows = 0 \/ block.cols = 0 \/ block.children = <<>> THEN <<>>
    ELSE format_markdown_table(TableData(block, root_data), block.hasRowTitle)

\* line 162: block.get('type', 'text')
BlockType(block) == IF block.type = "absent" THEN "text" ELSE block.type

\* a slip: a block of an unknown type renders as nothing
convert_block_UnknownSkipped(block, root_data) ==
    IF BlockType(block) = "text" THEN convert_text_block(block)
    ELSE IF BlockType(block) = "table" THEN convert_table_block(block, root_data)
    ELSE <<>>

\* lines 151-170
convert_block(block, root_data) ==
    IF BlockType(block) = "text" THEN convert_text_block(block)
    ELSE IF BlockType(block) = "table" THEN convert_table_block(block, root_data)
    ELSE convert_text_block(block)

BkIdle ==
    /\ bk_block = Block("absent", <<>>, 0, FALSE, 0, 0, <<>>, "absent")
    /\ bk_root = SideMapPlain
    /\ bk_result = <<"off">>

\* the block is a text block (of any type but 'table') or a table block
BkInit ==
    /\ \/ \E ty \in Types \ {"table"}, text \in RunSeqs, h \in Headings,
              q \in BOOLEAN :
             bk_block = Block(ty, text, h, q, 0, 0, <<>>, "absent")
       \/ \E r \in RowCounts, c \in ColCounts, ch \in ChildrenSeqs,
              flag \in {"absent", "true", "false"} :
             bk_block = Block("table", <<>>, 0, FALSE, r, c, ch, flag)
    /\ bk_root \in SideMaps
    /\ bk_result = Pending

BkConvert ==
    /\ bk_result = Pending
    /\ bk_result' = convert_block(bk_block, bk_root)
    /\ UNCHANGED <<bk_block, bk_root>>
    /\ UNCHANGED notBk

(***************************************************************************)
(* JsonToMarkdownConverter.convert: whole documents                        *)
(***************************************************************************)
\* top-level blocks of one document
MaxBlocks == 2

\* the blocks the documents are made of: a paragraph, a quoted heading
\* without a type and without runs, a quoted block of an unknown type and a
\* table
DocBlocks ==
    {Block("text", <<Run(<<"A">>, {})>>, 0, FALSE, 0, 0, <<>>, "absent"),
     Block("absent", <<>>, 2, TRUE, 0, 0, <<>>, "absent"),
     Block("image", <<Run(<<"A">>, {})>>, 0, TRUE, 0, 0, <<>>, "absent"),
     Block("table", <<>>, 0, FALSE, 1, 2, <<"c1", "c2">>, "true")}

BlockSeqs == UNION {[1..n -> DocBlocks] : n \in 0..MaxBlocks}

\* data: has_blocks is `'blocks' in data`, root the cell entries of data
Document(has_blocks, blocks, root) ==
    [has_blocks |-> has_blocks, blocks |-> blocks, root |-> root]

Documents ==
    {Document(FALSE, <<>>, SideMapPlain)} \cup
    {Document(TRUE, bs, SideMapPlain) : bs \in BlockSeqs}

\* lines 19-21: __init__
NewConverter == [indent_level |-> 0, in_table |-> FALSE]

\* a slip: convert notes on the instance that it is inside a table
ConverterAfter_TracksTable(self, data) ==
    [self EXCEPT !.in_table =
        \E i \in 1..Len(data.blocks) : data.blocks[i].type = "table"]

\* lines 127-149: convert assigns no field of the instance
ConverterAfter(self, data) == self

\* a slip: the blocks are read whether the field is there or not
HasBlocks_Always(data) == TRUE

\* line 137: 'blocks' in data
HasBlocks(data) == data.has_blocks

\* line 146: `if block_md`
KeepsBlock(md) == md # <<>>

\* a slip: the renderings joined by a single newline
JoinBlocks_SingleNewline(lines) == JoinStr(lines, <<"\n">>)

\* line 149: '\n\n'.join(markdown_lines)
JoinBlocks(lines) == JoinStr(lines, <<"\n", "\n">>)

NoConversion ==
    [set |-> FALSE, data |-> Document(FALSE, <<>>, SideMapPlain),
     result |-> <<>>, others |-> FALSE, same_self |-> TRUE]

\* the record of the run's conversions once convert has returned result for
\* data: the first conversion is kept, and whether another document was
\* converted after it
FirstAfter(first, data, result) ==
    IF ~first.set
    THEN [first EXCEPT !.set = TRUE, !.data = data, !.result = result]
    ELSE [first EXCEPT !.others = first.others \/ data # first.data]

CvIdle ==
    /\ cv_self = NewConverter
    /\ cv_pc = "off"
    /\ cv_arg = Document(FALSE, <<>>, SideMapPlain)
    /\ cv_data = Document(FALSE, <<>>, SideMapPlain)
    /\ cv_i = 0
    /\ block_md = <<>>
    /\ markdown_lines = <<>>
    /\ cv_result = <<"off">>
    /\ cv_first = NoConversion

CvInit ==
    /\ cv_self = NewConverter
    /\ cv_pc = "ready"
    /\ cv_arg = Document(FALSE, <<>>, SideMapPlain)
    /\ cv_data = Document(FALSE, <<>>, SideMapPlain)
    /\ cv_i = 0
    /\ block_md = <<>>
    /\ markdown_lines = <<>>
    /\ cv_result = Pending
    /\ cv_first = NoConversion

\* JsonToMarkdownConverter(): the caller goes on with a new instance
CvNewConverter ==
    /\ cv_pc = "returned"
    /\ cv_first.same_self
    /\ cv_self' = NewConverter
    /\ cv_first' = [cv_first EXCEPT !.same_self = FALSE]
    /\ UNCHANGED <<cv_pc, cv_arg, cv_data, cv_i, block_md, markdown_lines,
                   cv_result>>
    /\ UNCHANGED notCv

\* lines 137-142: convert is called; without 'blocks' it returns "" at once,
\* and data['blocks'] raises KeyError when the field is not there
CvCall ==
    /\ cv_pc \in {"ready", "returned"}
    /\ \E data \in Documents :
        /\ cv_arg' = data
        /\ cv_data' = data
        /\ cv_i' = 0
        /\ block_md' = <<>>
        /\ markdown_lines' = <<>>
        /\ IF ~HasBlocks(data)
           THEN /\ cv_pc' = "returned"
                /\ cv_result' = <<>>
                /\ cv_self' = ConverterAfter(cv_self, data)
                /\ cv_first' = FirstAfter(cv_first, data, <<>>)
           ELSE IF ~data.has_blocks
           THEN /\ cv_pc' = "raised"
                /\ cv_result' = Pending
                /\ UNCHANGED <<cv_self, cv_first>>
           ELSE /\ cv_pc' = "loop"
                /\ cv_result' = Pending
                /\ UNCHANGED <<cv_self, cv_first>>
    /\ UNCHANGED notCv

\* lines 144-147: one iteration of the loop over the blocks
CvBlock ==
    /\ cv_pc = "loop"
    /\ cv_i < Len(cv_data.blocks)
    /\ LET md == convert_block(cv_data.blocks[cv_i + 1], cv_data.root)
       IN  /\ block_md' = Append(block_md, md)
           /\ markdown_lines' = IF KeepsBlock(md) THEN Append(markdown_lines, md)
                                                  ELSE markdown_lines
    /\ cv_i' = cv_i + 1
    /\ UNCHANGED <<cv_self, cv_pc, cv_arg, cv_data, cv_result, cv_first>>
    /\ UNCHANGED notCv

\* line 149: the loop is over, the lines are joined and returned
CvReturn ==
    /\ cv_pc = "loop"
    /\ cv_i = Len(cv_data.blocks)
    /\ cv_result' = JoinBlocks(markdown_lines)
    /\ cv_pc' = "returned"
    /\ cv_self' = ConverterAfter(cv_self, cv_data)
    /\ cv_first' = FirstAfter(cv_first, cv_data, JoinBlocks(markdown_lines))
    /\ UNCHANGED <<cv_arg, cv_data, cv_i, block_md, markdown_lines>>
    /\ UNCHANGED notCv

(***************************************************************************)
(* The specifications                                                      *)
(***************************************************************************)
InitWS == WsInit /\ RqIdle /\ RlIdle /\ PgIdle /\ StIdle /\ ExIdle /\ BkIdle /\ CvIdle /\ SsIdle /\ FdIdle

NextWS ==
    \/ WsSelectToken
    \/ WsConnect
    \/ WsFirstHandshake
    \/ WsInitPayload
    \/ WsRecvBreak
    \/ WsRecvError
    \/ WsRecvFrame

SpecWS == InitWS /\ [][NextWS]_vars

\* the session against a server that never stops sending; the program takes
\* a step whenever it can, and nothing obliges the server to fall silent
NextWSLive ==
    \/ WsSelectToken
    \/ WsConnect
    \/ WsFirstHandshake
    \/ WsInitPayload
    \/ WsRecvBreak
    \/ WsRecvError
    \/ WsRecvFrame
    \/ WsRecvBeyond

SpecWSLive == InitWS /\ [][NextWSLive]_vars /\ WF_vars(NextWSLive)

\* the socket attempts of one run, one note after the other
InitSessions ==
    /\ WsInit /\ SsInit /\ RqIdle /\ RlIdle /\ PgIdle /\ StIdle /\ ExIdle /\ BkIdle
    /\ CvIdle /\ FdIdle

NextSessions ==
    \/ WsSelectToken
    \/ WsConnect
    \/ WsFirstHandshake
    \/ WsInitPayload
    \/ WsRecvBreak
    \/ WsRecvError
    \/ WsRecvFrame
    \/ SsNextDocument

SpecSessions == InitSessions /\ [][NextSessions]_vars

InitFolders ==
    /\ FdInit /\ WsIdle /\ SsIdle /\ RqIdle /\ RlIdle /\ PgIdle /\ StIdle /\ ExIdle
    /\ BkIdle /\ CvIdle

NextFolders ==
    \/ FdSelect
    \/ FdExportFolder
    \/ FdReturn

SpecFolders == InitFolders /\ [][NextFolders]_vars

InitRequest == RqInit /\ WsIdle /\ RlIdle /\ PgIdle /\ StIdle /\ ExIdle /\ BkIdle /\ CvIdle /\ SsIdle /\ FdIdle

NextRequest == RqAttempt

SpecRequest == InitRequest /\ [][NextRequest]_vars

InitRate == RlInit /\ WsIdle /\ RqIdle /\ PgIdle /\ StIdle /\ ExIdle /\ BkIdle /\ CvIdle /\ SsIdle /\ FdIdle

NextRate ==
    \/ RlWrappedCall
    \/ RlDirectCall
    \/ RlTimePasses

SpecRate == InitRate /\ [][NextRate]_vars

InitPages == PgInit /\ WsIdle /\ RqIdle /\ RlIdle /\ StIdle /\ ExIdle /\ BkIdle /\ CvIdle /\ SsIdle /\ FdIdle

NextPages ==
    \/ PgRequest
    \/ PgYield
    \/ PgAdvance

SpecPages == InitPages /\ [][NextPages]_vars

\* the listing against a server that may answer a page request with an error
NextPagesFaulty ==
    \/ PgRequest
    \/ PgRequestFails
    \/ PgYield
    \/ PgAdvance

SpecPagesFaulty == InitPages /\ [][NextPagesFaulty]_vars

InitStyles == StInit /\ WsIdle /\ RqIdle /\ RlIdle /\ PgIdle /\ ExIdle /\ BkIdle /\ CvIdle /\ SsIdle /\ FdIdle

NextStyles == StApply

SpecStyles == InitStyles /\ [][NextStyles]_vars

InitExport == ExInit /\ WsIdle /\ RqIdle /\ RlIdle /\ PgIdle /\ StIdle /\ BkIdle /\ CvIdle /\ SsIdle /\ FdIdle

NextExport ==
    \/ ExStart
    \/ ExNextFolder
    \/ ExNextNote
    \/ ExListingEnds
    \/ ExListingRaises
    \/ ExSocket
    \/ ExRest
    \/ ExCheck
    \/ ExWrite

SpecExport == InitExport /\ [][NextExport]_vars

InitBlock == BkInit /\ WsIdle /\ RqIdle /\ RlIdle /\ PgIdle /\ StIdle /\ ExIdle /\ CvIdle /\ SsIdle /\ FdIdle

NextBlock == BkConvert

SpecBlock == InitBlock /\ [][NextBlock]_vars

InitConvert == CvInit /\ WsIdle /\ RqIdle /\ RlIdle /\ PgIdle /\ StIdle /\ ExIdle /\ BkIdle /\ SsIdle /\ FdIdle

NextConvert ==
    \/ CvNewConverter
    \/ CvCall
    \/ CvBlock
    \/ CvReturn

SpecConvert == InitConvert /\ [][NextConvert]_vars

(***************************************************************************)
(* The claims about the WebSocket session                                  *)
(***************************************************************************)
\* the frames received are exactly init, hs, f(data = x)
Scripted(x) ==
    /\ Len(recvd) = 3
    /\ recvd[1].form = "object" /\ recvd[1].a = "init"
    /\ recvd[2].form = "object" /\ recvd[2].a = "hs"
    /\ recvd[3].form = "object" /\ recvd[3].a = "f" /\ recvd[3].data = x

ExpectedHandshake == [op |-> "text", a |-> "hs", token |-> token, c |-> "KB", d |-> "DOC"]

ExpectedFetch == [op |-> "text", a |-> "f", token |-> "", c |-> "KB", d |-> "DOC"]

\* C1 as stated: for the responses [init, hs, f(data=X)] the function returns
\* X having sent exactly handshake, handshake, fetch request.
C1_Original ==
    \A x \in DataVals :
        Scripted(x) =>
            /\ wsPc = "returned"
            /\ wsResult = x
            /\ sent = <<ExpectedHandshake, ExpectedHandshake, ExpectedFetch>>

\* C1 amended: for the responses [init, hs, f(data=X)] the function returns X
\* having sent, in order, the handshake, the init payload when one is
\* configured, the handshake again and the fetch request, and nothing else.
C1_ScriptedSession ==
    \A x \in DataVals :
        Scripted(x) =>
            /\ wsPc = "returned"
            /\ wsResult = x
            /\ IF ws_config.init_payload = ""
               THEN sent = <<ExpectedHandshake, ExpectedHandshake, ExpectedFetch>>
               ELSE /\ Len(sent) = 4
                    /\ sent[1] = ExpectedHandshake
                    /\ sent[2].a = "init_payload"
                    /\ sent[3] = ExpectedHandshake
                    /\ sent[4] = ExpectedFetch

C1_Witness ==
    /\ Scripted("X1")
    /\ wsPc = "returned"
    /\ wsResult = "X1"
    /\ ws_config.init_payload # ""
    /\ Len(sent) = 4

\* C2 as stated: once the connection was opened, it is closed when the
\* function has returned or raised.
C2_ClosedOnEveryExit ==
    (wsPc \in {"returned", "raised"} /\ opened) => closed

\* the handshake messages sent so far
HandshakesSent == {i \in 1..Len(sent) : sent[i].a = "hs"}

\* the fetch requests sent so far
FetchesSent == {i \in 1..Len(sent) : sent[i].a = "f"}

\* the init messages received so far
InitsReceived ==
    {i \in 1..Len(recvd) : recvd[i].form = "object" /\ recvd[i].a = "init"}

\* C17: in one session the handshake is sent at most twice, once right after
\* connect and once on the first init message; a later init message causes
\* no send at all.
C17_HandshakeAtMostTwice ==
    /\ [](/\ Cardinality(HandshakesSent) <= 2
          /\ HandshakesSent # {} => 1 \in HandshakesSent
          /\ Cardinality(HandshakesSent) = 2 => (handshake_sent /\ InitsReceived # {})
          /\ handshake_sent => Cardinality(HandshakesSent) = 2)
    /\ [][(/\ handshake_sent
           /\ Len(recvd') = Len(recvd) + 1
           /\ recvd'[Len(recvd')].a = "init") => sent' = sent]_vars

C17_Witness ==
    /\ wsPc = "pump"
    /\ Cardinality(InitsReceived) = 3
    /\ Cardinality(HandshakesSent) = 2

\* C18: for the responses [init] followed by a receive timeout the function
\* returns no payload, having sent the handshake twice (once again on the
\* init) and no fetch request.
C18_InitThenTimeout ==
    (recvd = <<[enc |-> "text", form |-> "object", a |-> "init", data |-> "absent"]>>
        /\ wsPc = "returned") =>
        /\ wsResult = "None"
        /\ Cardinality(HandshakesSent) = 2
        /\ FetchesSent = {}

C18_Witness ==
    /\ Len(recvd) = 1
    /\ recvd[1].a = "init"
    /\ wsPc = "returned"
    /\ closed
    /\ wsResult = "None"
    /\ Cardinality(HandshakesSent) = 2

\* C19 as stated: a fetch request is sent only on an hs ack received before
\* any fetch request was sent; an hs ack received after it sends nothing, so
\* at most one fetch request is sent per session.
C19_AtMostOneFetch == Cardinality(FetchesSent) <= 1

\* C20 as stated: a payload is captured only after the client has sent its
\* fetch request; an f message with data that arrives before is not accepted
\* as the document.
C20_PayloadOnlyAfterFetch ==
    (note_payload # "None" \/ wsResult \in {"X1", "X2"}) => FetchesSent # {}

\* the frame is empty, binary that does not decode as UTF-8, or text that is
\* not JSON
Malformed(m) == m.form \in {"empty", "badutf8", "nonjson"}

\* this step receives the frame m
Receives(m) == recvd' = Append(recvd, m)

\* C21: an inbound frame that is empty, binary that is not UTF-8, or text
\* that is not JSON is skipped: the step sends nothing, changes neither
\* handshake_sent nor the captured payload, does not end the pump, and only
\* increases message_count.
C21_MalformedSkipped ==
    [][\A m \in WireFrames :
          (Malformed(m) /\ Receives(m)) =>
              /\ sent' = sent
              /\ handshake_sent' = handshake_sent
              /\ note_payload' = note_payload
              /\ session_id' = session_id
              /\ wsPc = "pump" /\ wsPc' = "pump"
              /\ closed' = closed
              /\ wsResult' = wsResult
              /\ message_count' = message_count + 1]_vars

C21_Witness ==
    /\ wsPc = "pump"
    /\ Len(recvd) = 3
    /\ recvd[1].form = "empty"
    /\ recvd[2].form = "badutf8"
    /\ recvd[3].form = "nonjson"
    /\ message_count = 3
    /\ Len(sent) = 1
    /\ ~closed

\* C32 as stated: a frame that parses as JSON but is no JSON object is
\* skipped like a malformed frame: the step does not raise, does not end the
\* pump, sends nothing and only increases message_count.
C32_NonObjectSkipped ==
    [][\A m \in WireFrames :
          (m.form = "nondict" /\ Receives(m)) =>
              /\ wsPc' = "pump"
              /\ closed' = closed
              /\ sent' = sent
              /\ handshake_sent' = handshake_sent
              /\ note_payload' = note_payload
              /\ message_count' = message_count + 1]_vars

\* the f messages with a data field received so far
DocumentsReceived ==
    {i \in 1..Len(recvd) :
        recvd[i].form = "object" /\ recvd[i].a = "f" /\ recvd[i].data # "absent"}

\* C22: when the receive times out or the connection closes before an f
\* message with data was received, the function returns None; it returns a
\* payload only if such a message was received, and then that message's data.
C22_NoPayloadWithoutDocument ==
    /\ (wsPc = "returned" /\ DocumentsReceived = {}) => wsResult = "None"
    /\ wsResult \notin {"pending", "None"} =>
          /\ wsPc = "returned"
          /\ DocumentsReceived = {Len(recvd)}
          /\ wsResult = recvd[Len(recvd)].data

C22_Witness ==
    /\ wsPc = "returned"
    /\ closed
    /\ Len(recvd) = 2
    /\ recvd[1].a = "init"
    /\ recvd[2].a = "hs"
    /\ FetchesSent # {}
    /\ wsResult = "None"

\* C23: with a non-blank editor token configured the handshake uses that
\* token and get_editor_token_info is never called; it is called only when
\* no such token is configured.
C23_StaticTokenFirst ==
    /\ ws_config.editor_token = "STATIC" =>
          /\ tokenCalls = 0
          /\ token_posts = 0
          /\ \A i \in HandshakesSent : sent[i].token = "STATIC"
    /\ tokenCalls > 0 =>
          /\ ws_config.enabled
          /\ ws_config.editor_token \in {"", " "}
          /\ \A i \in HandshakesSent : sent[i].token = "APITOKEN"

C23_Witness ==
    /\ ws_config.editor_token = "STATIC"
    /\ Cardinality(HandshakesSent) = 2
    /\ sent[1].token = "STATIC"
    /\ tokenCalls = 0

\* the attempt had no static token and got none from get_editor_token_info
TokenNotObtained ==
    /\ ws_config.enabled
    /\ ws_config.editor_token \in {"", " "}
    /\ tokenCalls > 0
    /\ token = "None"

C27_PumpExits == <>(wsPc \in {"returned", "raised"})

\* the connections open at this moment: those earlier attempts left open
\* and the one of the attempt under way
OpenSessions == ss_unclosed + IF IsUnclosed THEN 1 ELSE 0

\* C28 as stated: across a whole run at most one socket session is open at
\* any moment, whatever way the earlier attempts ended.
C28_OneSessionOpen == OpenSessions <= 1

(***************************************************************************)
(* The claims about the export loop                                        *)
(***************************************************************************)
\* the socket path did not produce Markdown with content
SocketFailed ==
    cur.ws \in {"raises", "nothing", "not_object", "convert_raises",
                "convert_empty", "convert_blank"}

\* the loop is done with the note cur describes
NoteFinished == cur.doc > 0 /\ exPc \in {"note", "folder", "done", "aborted"}

FailuresOf(doc) ==
    {i \in DOMAIN conversion_failures : conversion_failures[i].doc_guid = doc}

\* C3 as stated: when the socket path raises, returns nothing, fails to
\* convert or converts to empty or blank Markdown, download_note is attempted
\* for the same note, and when the REST path then gives Markdown with content
\* the note is written with provenance REST.
C3_Original ==
    /\ (SocketFailed /\ exPc # "rest") => cur.rest # "not_called"
    /\ (SocketFailed /\ cur.rest = "convert_text" /\ NoteFinished) =>
          \E f \in files : f.doc = cur.doc /\ f.api = "REST"

\* C3 amended: ... and when the REST path then gives Markdown with content
\* the note's provenance is REST and its file is written with that
\* provenance, unless the write of the file itself fails (then a write
\* failure is recorded for the note).
C3_RestFallback ==
    /\ (SocketFailed /\ exPc # "rest") => cur.rest # "not_called"
    /\ (SocketFailed /\ cur.rest = "convert_text") =>
          /\ used_api = "REST"
          /\ NoteFinished =>
                \/ /\ cur.write = "written"
                   /\ \E f \in files : f.doc = cur.doc /\ f.api = "REST"
                \/ /\ cur.write = "failed"
                   /\ \E i \in FailuresOf(cur.doc) :
                         conversion_failures[i].error = "write_failed"

C3_Witness ==
    /\ cur.ws = "convert_blank"
    /\ cur.rest = "convert_text"
    /\ cur.write = "written"
    /\ \E f \in files : f.doc = cur.doc /\ f.api = "REST"

\* neither path produced Markdown with content for the current note
BothFailed ==
    /\ cur.doc > 0
    /\ cur.ws # "convert_text"
    /\ cur.rest # "convert_text"

\* C4: when neither the socket path nor the REST path produces non-empty
\* Markdown for a note, exactly one failure record is appended for it, no
\* Markdown file is written for it, and the loop goes on with the next note.
C4_BothFail ==
    /\ [](
          (BothFailed /\ exPc \notin {"socket", "rest", "check"}) =>
              /\ Cardinality(FailuresOf(cur.doc)) = 1
              /\ cur.write = "not_tried"
              /\ \A f \in files : f.doc # cur.doc
         )
    /\ [][ (BothFailed /\ exPc = "check") => exPc' = "note" ]_vars

C4_Witness ==
    /\ Len(conversion_failures) = 1
    /\ conversion_failures[1].doc_guid = 1
    /\ conversion_failures[1].error = "all_failed"
    /\ files = {}
    /\ cur.doc = 2
    /\ exPc = "write"

\* C5 as stated: when the socket transport is enabled and its payload
\* converts to non-empty Markdown, the provenance is WebSocket and
\* download_note is never called for the note.
C5_Original ==
    (websocket_available /\ cur.ws \in {"convert_blank", "convert_text"}
        /\ NoteFinished) =>
        /\ used_api = "WebSocket"
        /\ cur.rest = "not_called"

\* C5 amended: when the socket transport is enabled and its payload converts
\* to Markdown that is not empty and not only whitespace, the provenance is
\* WebSocket and download_note is never called for the note.
C5_SocketProvenance ==
    (websocket_available /\ cur.ws = "convert_text") =>
        /\ used_api = "WebSocket"
        /\ cur.rest = "not_called"
        /\ \A f \in files : f.doc = cur.doc => f.api = "WebSocket"

C5_Witness ==
    /\ websocket_available
    /\ cur.ws = "convert_text"
    /\ cur.write = "written"
    /\ \E f \in files : f.doc = cur.doc /\ f.api = "WebSocket"

\* C24 as stated: no two documents are written to the same output file
\* path, so every document written still has a file of its own.
C24_NoOverwrite == Cardinality(files) = success_notes

\* C25 as stated: a failure that persists while the documents of a folder
\* are listed does not abort export_notes_to_markdown.
C25_ListingFailureNoAbort == exPc = "aborted" => folder_path = 0

\* this step is a write of the current note's file that fails
WriteFails == exPc = "write" /\ cur'.write = "failed"

\* C26: when writing a document's Markdown file fails, exactly one failure
\* record is appended for that document, the document is counted as failed
\* and not as exported, and the loop goes on with the next document.
C26_WriteFailure ==
    /\ [](
          cur.write = "failed" =>
              /\ Cardinality(FailuresOf(cur.doc)) = 1
              /\ \A i \in FailuresOf(cur.doc) :
                    conversion_failures[i].error = "write_failed"
              /\ \A f \in files : f.doc # cur.doc
         )
    /\ [][ WriteFails =>
              /\ Len(conversion_failures') = Len(conversion_failures) + 1
              /\ failed_notes' = failed_notes + 1
              /\ success_notes' = success_notes
              /\ files' = files
              /\ exPc' = "note" ]_vars

C26_Witness ==
    /\ Len(conversion_failures) = 1
    /\ conversion_failures[1].doc_guid = 1
    /\ conversion_failures[1].error = "write_failed"
    /\ failed_notes = 1
    /\ success_notes = 1
    /\ cur.doc = 2
    /\ cur.write = "written"

\* the loop is between two notes: every note taken so far was processed
BetweenNotes == exPc \in {"note", "folder", "done"}

C34_TransportCountersAddUp ==
    exPc = "done" => success_notes = websocket_success + rest_fallback_success

C37_OnlyFilteredFolders ==
    IsFiltering(folders_filter) =>
        \A i \in DOMAIN exported_folders : exported_folders[i] \in folders_filter.paths

(***************************************************************************)
(* The claims about request                                                *)
(***************************************************************************)
\* C29 as stated: a 403 or 404 answer is surfaced after a single HTTP
\* request, without further attempts.
C29_ClientErrorNotRetried ==
    \A i \in 1..Len(http_log) : http_log[i] \in {403, 404} => Len(http_log) = i

\* C6 as stated: one call of request refreshes the token at most once, and
\* issues nothing more after a second 401.
C6_RefreshAtMostOnce == refresh_count <= 1

\* C7: when every attempt is answered with a 5xx status, the call issues
\* exactly 3 HTTP requests and then raises; it never issues a 4th and never
\* returns a response.
C7_ThreeAttemptsOn5xx ==
    (\A i \in 1..Len(http_log) : Is5xx(http_log[i])) =>
        /\ Len(http_log) <= 3
        /\ rqPc # "returned"
        /\ (rqPc = "raised" <=> Len(http_log) = 3)

C7_Witness ==
    /\ rqPc = "raised"
    /\ http_log = <<500, 503, 500>>

\* the headers of a call that are no auth headers
CallerPart(call) == {h \in call.headers : h.name # "X-Wiz-Token"}

\* C36 as stated: the call re-issued after a 401 carries the same
\* caller-supplied headers and arguments as the call before it; only the auth
\* headers are replaced, by those of the refreshed token.
C36_ReissueSameRequest ==
    \A i \in 2..Len(request_log) :
        request_log[i].reissue =>
            /\ request_log[i].kwargs = request_log[i - 1].kwargs
            /\ CallerPart(request_log[i]) = CallerPart(request_log[i - 1])
            /\ rq_kwargs.headers \subseteq request_log[i].headers
            /\ request_log[i].headers \ CallerPart(request_log[i])
                  # request_log[i - 1].headers \ CallerPart(request_log[i - 1])

(***************************************************************************)
(* The claim about the rate limiter                                        *)
(***************************************************************************)
\* C8 as stated: any two consecutive outbound calls of one client are at
\* least 1/calls_per_second apart, whichever operations they are.
C8_GlobalMinInterval ==
    \A i \in 1..(Len(calls) - 1) : calls[i+1].at - calls[i].at >= min_interval

(***************************************************************************)
(* The claim about pagination                                              *)
(***************************************************************************)
\* C9: against a server that returns up to 100 notes from the requested
\* offset, every note is yielded exactly once in server order, every page
\* request starts at the number of notes returned so far, and no page is
\* requested after the first page of fewer than 100 notes.
C9_Pagination ==
    /\ \A i \in 1..Len(yielded) : yielded[i] = i
    /\ Len(yielded) <= folder_size
    /\ pgPc = "done" => Len(yielded) = folder_size
    /\ \A k \in 1..Len(pages) : pages[k].start = pages[k].yielded_before
    /\ \A k \in 1..(Len(pages) - 1) : pages[k].returned = 100

C9_Witness ==
    /\ pgPc = "done"
    /\ folder_size > 200
    /\ Len(pages) = 3
    /\ Len(yielded) = folder_size

\* the page requests that were answered with an error of the application
FailedPages == {k \in DOMAIN pages : pages[k].reply \in PageErrors}

\* C38: an application-level error on a page request never raises from
\* get_all_notes_in_folder: the page is taken as empty and the sequence ends
\* there, with the notes of the earlier pages yielded and none of that page
\* or a later one, as it ends for a folder that is exhausted.
C38_PageErrorEndsListing ==
    /\ pgPc \in {"off", "request", "yield", "advance", "done"}
    /\ \A k \in FailedPages :
          /\ k = Len(pages)
          /\ pages[k].returned = 0
          /\ pgPc = "done"
          /\ notes = <<>>
          /\ Len(yielded) = pages[k].start
          /\ \A i \in 1..Len(yielded) : yielded[i] = i

C38_Witness ==
    /\ folder_size = 201
    /\ Len(pages) = 2
    /\ pages[2].reply = "returnCode"
    /\ pages[2].start = 100
    /\ Len(yielded) = 100
    /\ pgPc = "done"

(***************************************************************************)
(* The claim about run styling                                             *)
(***************************************************************************)
\* the nesting the claim states: bold outermost, then italic, then
\* strikethrough, inline code innermost
ClaimedNesting(text, attributes) ==
    LET code == IF "style-code" \in attributes
                THEN <<Backquote>> \o text \o <<Backquote>> ELSE text
        strike == IF "style-strike" \in attributes
                  THEN <<"~", "~">> \o code \o <<"~", "~">> ELSE code
        italic == IF "style-italic" \in attributes
                  THEN <<"*">> \o strike \o <<"*">> ELSE strike
        bold == IF "style-bold" \in attributes
                THEN <<"*", "*">> \o italic \o <<"*", "*">> ELSE italic
    IN  bold

\* C10 as stated: the markers of a run nest bold outermost, then italic,
\* then strikethrough, with inline code innermost, for every subset of the
\* four attributes.
C10_BoldOutermostCodeInnermost ==
    st_result # Pending => st_result = ClaimedNesting(st_text, st_attributes)

(***************************************************************************)
(* The claims about the rendering of one block                             *)
(***************************************************************************)
\* the lines of a text: its parts between the newlines
RECURSIVE SplitLines(_)
SplitLines(str) ==
    IF \A i \in 1..Len(str) : str[i] # "\n" THEN <<str>>
    ELSE LET k == CHOOSE i \in 1..Len(str) :
                    /\ str[i] = "\n"
                    /\ \A j \in 1..(i - 1) : str[j] # "\n"
         IN  <<SubSeq(str, 1, k - 1)>> \o SplitLines(SubSeq(str, k + 1, Len(str)))

\* '|' and then, for every cell, a space, the cell and ' |'
RECURSIVE ExpectedCells(_)
ExpectedCells(cells) ==
    IF cells = <<>> THEN <<>>
    ELSE <<" ">> \o cells[1] \o <<" ", "|">> \o ExpectedCells(Tail(cells))

ExpectedTableLine(cells) == <<"|">> \o ExpectedCells(cells)

\* the contents of the cells of source row r of the block, in row-major order
SourceRow(r) ==
    [j \in 1..bk_block.cols |->
        get_cell_content(bk_block.children[(r - 1) * bk_block.cols + j], bk_root)]

\* the table of the example: rows=2, cols=2, the cells A, B, C, D
ExampleTable ==
    /\ bk_block.type = "table"
    /\ bk_block.rows = 2
    /\ bk_block.cols = 2
    /\ bk_block.children = <<"c1", "c2", "c3", "c4">>
    /\ bk_root = SideMapPlain

ExampleTableText ==
    <<"|", " ", "A", " ", "|", " ", "B", " ", "|", "\n",
      "|", " ", "-", "-", "-", " ", "|", " ", "-", "-", "-", " ", "|", "\n",
      "|", " ", "C", " ", "|", " ", "D", " ", "|">>

\* C11: a table block with R>0 rows, C>0 columns and R*C cell ids renders as
\* exactly R+1 lines: the first source row, a separator of C '---' cells,
\* then the source rows 2..R in order, the cells in row-major order, whatever
\* hasRowTitle is; the 2x2 table of A, B, C, D gives the three lines of the
\* example.
C11_TableLayout ==
    /\ (/\ bk_result # Pending
        /\ bk_block.type = "table"
        /\ bk_block.rows > 0
        /\ bk_block.cols > 0
        /\ Len(bk_block.children) = bk_block.rows * bk_block.cols) =>
            LET lines == SplitLines(bk_result)
            IN  /\ Len(lines) = bk_block.rows + 1
                /\ lines[1] = ExpectedTableLine(SourceRow(1))
                /\ lines[2] = ExpectedTableLine(
                                 [j \in 1..bk_block.cols |-> <<"-", "-", "-">>])
                /\ \A r \in 2..bk_block.rows :
                      lines[r + 1] = ExpectedTableLine(SourceRow(r))
    /\ (ExampleTable /\ bk_result # Pending) => bk_result = ExampleTableText

C11_Witness ==
    /\ ExampleTable
    /\ bk_block.hasRowTitle = "false"
    /\ bk_result = ExampleTableText

\* the cell of row r and column j as the claim has it: the content of its
\* cell id, or empty when the children end before it or the id has no entry
ClaimedCell(r, j) ==
    LET k == (r - 1) * bk_block.cols + j
    IN  IF k > Len(bk_block.children) THEN <<>>
        ELSE IF bk_block.children[k] \notin DOMAIN bk_root THEN <<>>
        ELSE get_cell_content(bk_block.children[k], bk_root)

ClaimedRow(r) == [j \in 1..bk_block.cols |-> ClaimedCell(r, j)]

\* C31 as stated: a table block renders to the empty string unless its row
\* count and column count are both positive and its children are not empty
\* (zero, negative and missing counts all give the empty string); otherwise
\* the table has rows*cols cells, those beyond the children or without an
\* entry in the side mapping being empty.
C31_EmptyUnlessPositive ==
    (bk_result # Pending /\ bk_block.type = "table") =>
        IF bk_block.rows <= 0 \/ bk_block.cols <= 0 \/ bk_block.children = <<>>
        THEN bk_result = <<>>
        ELSE LET lines == SplitLines(bk_result)
             IN  /\ Len(lines) = bk_block.rows + 1
                 /\ lines[1] = ExpectedTableLine(ClaimedRow(1))
                 /\ \A r \in 2..bk_block.rows :
                       lines[r + 1] = ExpectedTableLine(ClaimedRow(r))

\* the trimmed concatenation of the styled runs of the block
TrimmedRuns == Strip(StyledRuns(bk_block.text))

\* the block is a text block and _convert_block has rendered it
RenderedTextBlock ==
    /\ bk_block.type \in {"text", "absent"}
    /\ bk_result # Pending
    /\ bk_result # <<"off">>

\* C12 as stated: a text block with heading level n>0 renders as n '#', a
\* space and the trimmed concatenation of its styled runs; a block with the
\* quote flag and no heading renders as '> ' and that text; with both, the
\* heading form is produced and there is no '> ' prefix.
C12_Original ==
    RenderedTextBlock =>
        /\ bk_block.heading > 0 =>
              /\ bk_result = [i \in 1..bk_block.heading |-> "#"] \o <<" ">>
                                \o TrimmedRuns
              /\ bk_block.quoted => SubSeq(bk_result, 1, 2) # <<">", " ">>
        /\ (bk_block.heading = 0 /\ bk_block.quoted) =>
              bk_result = <<">", " ">> \o TrimmedRuns

\* C12 amended: the same for a text block that has at least one run; a text
\* block without runs renders as the empty string whatever its heading level
\* and quote flag are.
C12_HeadingAndQuote ==
    RenderedTextBlock =>
        /\ (bk_block.text # <<>> /\ bk_block.heading > 0) =>
              /\ bk_result = [i \in 1..bk_block.heading |-> "#"] \o <<" ">>
                                \o TrimmedRuns
              /\ bk_block.quoted => SubSeq(bk_result, 1, 2) # <<">", " ">>
        /\ (bk_block.text # <<>> /\ bk_block.heading = 0 /\ bk_block.quoted) =>
              bk_result = <<">", " ">> \o TrimmedRuns
        /\ bk_block.text = <<>> => bk_result = <<>>

C12_Witness ==
    /\ bk_block.type = "text"
    /\ bk_block.heading = 2
    /\ bk_block.quoted
    /\ bk_block.text = <<Run(<<"A">>, {}), Run(<<" ", "B", " ">>, {"style-bold"})>>
    /\ bk_result = <<"#", "#", " ", "A", "*", "*", " ", "B", " ", "*", "*">>

(***************************************************************************)
(* The claims about the conversion of a document                           *)
(***************************************************************************)
\* the document has no top-level block sequence, or an empty one
NoBlocks == ~cv_data.has_blocks \/ cv_data.blocks = <<>>

\* C13: for a document whose top-level block sequence is absent or empty,
\* convert returns the empty string and raises no error.
C13_EmptyDocument ==
    (NoBlocks /\ cv_pc \in {"loop", "returned", "raised"}) =>
        /\ cv_pc # "raised"
        /\ markdown_lines = <<>>
        /\ cv_pc = "returned" => cv_result = <<>>

C13_Witness ==
    /\ cv_first.set
    /\ ~cv_first.data.has_blocks
    /\ cv_first.result = <<>>
    /\ cv_pc = "returned"
    /\ cv_data.has_blocks
    /\ cv_data.blocks = <<>>
    /\ cv_result = <<>>

\* the renderings with one blank line between consecutive ones
RECURSIVE BlankLineJoin(_)
BlankLineJoin(renderings) ==
    IF renderings = <<>> THEN <<>>
    ELSE IF Len(renderings) = 1 THEN renderings[1]
    ELSE renderings[1] \o <<"\n", "\n">> \o BlankLineJoin(Tail(renderings))

\* every block of the document rendered on its own
Renderings ==
    [i \in 1..Len(cv_data.blocks) |->
        convert_block(cv_data.blocks[i], cv_data.root)]

NonEmpty(md) == md # <<>>

\* C14 as stated: convert renders each block independently of the others
\* and joins the renderings in source order with exactly one blank line
\* between consecutive renderings.
C14_Original ==
    (cv_pc = "returned" /\ cv_data.has_blocks) =>
        /\ block_md = Renderings
        /\ cv_result = BlankLineJoin(block_md)

\* C14 amended: convert renders each block independently of the others,
\* leaves out the blocks whose rendering is the empty string, and joins the
\* other renderings in source order with exactly one blank line between
\* consecutive ones.
C14_JoinedInOrder ==
    (cv_pc = "returned" /\ cv_data.has_blocks) =>
        /\ block_md = Renderings
        /\ cv_result = BlankLineJoin(SelectSeq(block_md, NonEmpty))

C14_Witness ==
    /\ cv_pc = "returned"
    /\ Len(cv_data.blocks) = 2
    /\ cv_data.blocks[1].type = "table"
    /\ cv_data.blocks[2].type = "text"
    /\ cv_result =
          <<"|", " ", "A", " ", "|", " ", "B", " ", "|", "\n",
            "|", " ", "-", "-", "-", " ", "|", " ", "-", "-", "-", " ", "|",
            "\n", "\n", "A">>

\* the type of the block is neither 'text' nor 'table', or is absent
UnknownType(block) == block.type \notin {"text", "table"}

\* C15: a block whose type is neither 'text' nor 'table' (or is absent)
\* renders exactly as a text block with the same fields would, convert does
\* not raise, and every block of the document is still rendered and, unless
\* empty, kept in the result.
C15_UnknownAsText ==
    /\ cv_pc # "raised"
    /\ Len(block_md) <= Len(cv_data.blocks)
    /\ \A i \in 1..Len(block_md) :
          UnknownType(cv_data.blocks[i]) =>
              block_md[i] = convert_block([cv_data.blocks[i] EXCEPT !.type = "text"],
                                          cv_data.root)
    /\ (cv_pc = "returned" /\ cv_data.has_blocks) =>
          /\ Len(block_md) = Len(cv_data.blocks)
          /\ markdown_lines = SelectSeq(block_md, NonEmpty)
          /\ cv_result = BlankLineJoin(markdown_lines)

C15_Witness ==
    /\ cv_pc = "returned"
    /\ Len(cv_data.blocks) = 2
    /\ cv_data.blocks[1].type = "image"
    /\ cv_data.blocks[2].type = "text"
    /\ cv_result = <<">", " ", "A", "\n", "\n", "A">>

====
